---- MODULE Spec2Model ----
(***************************************************************************)
(* Conversation store of the LegalAI chat page (src/pages/ChatPage.tsx).   *)
(*                                                                         *)
(* The page is a React function component.  Every event handler and every  *)
(* continuation of an awaited request runs to completion on the browser's  *)
(* main thread, is followed by a re-render, and the effects that depend on *)
(* a changed state value run before the next event.  One action below is   *)
(* one such handler together with the effects it triggers.                 *)
(*                                                                         *)
(* A handler reads the state of the render that created it.  handleSend    *)
(* therefore keeps, across its await, the `messages` and the               *)
(* `activeConversationId` of the render in which the message was sent; the *)
(* in-flight request records both.                                         *)
(***************************************************************************)
EXTENDS Integers, Sequences, FiniteSets, TLC

VARIABLES
    messages,               \* useState<Message[]>: the working message list
    conversations,          \* useState<Conversation[]>
    activeConversationId,   \* useState<string | null>
    isLoading,              \* useState<boolean>
    mounted,                \* the component tree is mounted (no uncaught error tore it down)
    storage,                \* localStorage['legal-compass-conversations']
    pending,                \* handleSend calls suspended at their await
    now,                    \* the last value Date.now() returned
    sends,                  \* number of requests issued so far (bounded)
    lastOp,                 \* history: the operation that produced this state
    expected,               \* history: the session's messages in arrival order
    overlap                 \* history: a send was issued while another was pending

vars == <<messages, conversations, activeConversationId, isLoading, mounted,
          storage, pending, now, sends, lastOp, expected, overlap>>

-----------------------------------------------------------------------------
(* Bounds *)

MaxSends == 2
MaxTime == 2

-----------------------------------------------------------------------------
(* Values *)

Null == "<null>"
Undefined == "<undefined>"

TitleLimit == 40

ShortText == "Punishment for cheating"
LongText == "What is the punishment for murder under BNS?"
BlankText == "  "
\* a prompt of exactly TitleLimit characters
ExactText == "What is the punishment for theft in BNS?"
Texts == {ShortText, LongText, BlankText}

FallbackNoAnswer == "Sorry, I couldn't process that request."
FallbackError == "Error connecting to the server. Please ensure the backend is running."

\* property read on a JS object: undefined when the key is missing
Field(obj, k) == IF k \in DOMAIN obj THEN obj[k] ELSE Undefined

\* JS truthiness of a string | null | undefined
Truthy(v) == v # Undefined /\ v # Null /\ v # ""

Min(a, b) == IF a < b THEN a ELSE b

\* String.prototype.slice(0, n)
Slice(s, n) == SubSeq(s, 1, Min(n, Len(s)))

RECURSIVE Trim(_)
\* String.prototype.trim()
Trim(s) ==
    IF Len(s) = 0 THEN s
    ELSE IF SubSeq(s, 1, 1) = " " THEN Trim(SubSeq(s, 2, Len(s)))
    ELSE IF SubSeq(s, Len(s), Len(s)) = " " THEN Trim(SubSeq(s, 1, Len(s) - 1))
    ELSE s

Range(s) == {s[i] : i \in 1..Len(s)}

Ids(convs) == {convs[i].id : i \in 1..Len(convs)}

\* Array.prototype.find(c => c.id === convId): index of the first match, 0 if none
FindIndex(convs, convId) ==
    IF convId \in Ids(convs)
    THEN CHOOSE i \in 1..Len(convs) :
            /\ convs[i].id = convId
            /\ \A j \in 1..(i - 1) : convs[j].id # convId
    ELSE 0

-----------------------------------------------------------------------------
(* Query Service responses *)

\* what fetch / response.json() can produce for one request:
\*   reject    fetch rejects (network unreachable)
\*   badjson   response.json() rejects (the body is not JSON)
\*   nulljson  the body is the JSON text null, so reading data.answer throws
\*   json      the body is a JSON object; ok is response.ok (2xx)
Outcomes ==
    { [kind |-> "reject"],
      [kind |-> "badjson"],
      [kind |-> "nulljson"],
      [kind |-> "json", ok |-> TRUE,  data |-> [answer |-> "Section 103 BNS", citations |-> "BNS 103"]],
      [kind |-> "json", ok |-> TRUE,  data |-> [related_judgments |-> "State v. X"]],
      [kind |-> "json", ok |-> FALSE, data |-> [answer |-> "Section 103 BNS", citations |-> "BNS 103"]] }

\* one outcome for each assistant message handleSend can build
CoreOutcomes ==
    { [kind |-> "reject"],
      [kind |-> "json", ok |-> TRUE,  data |-> [answer |-> "Section 103 BNS", citations |-> "BNS 103"]],
      [kind |-> "json", ok |-> TRUE,  data |-> [related_judgments |-> "State v. X"]] }

UserMessage(text) == [role |-> "user", content |-> text]

\* the else branch copies data.answer as the if branch does
AssistantMessage_NoSoftFailure(outcome) ==
    IF outcome.kind # "json"
    THEN [role |-> "assistant", content |-> FallbackError]
    ELSE [role |-> "assistant",
          content |-> Field(outcome.data, "answer"),
          judgments |-> Field(outcome.data, "related_judgments"),
          arguments |-> Field(outcome.data, "arguments"),
          neutral_analysis |-> Field(outcome.data, "neutral_analysis"),
          citations |-> Field(outcome.data, "citations")]

\* the catch block answers with the soft-failure text
AssistantMessage_CatchSaysSorry(outcome) ==
    IF outcome.kind # "json"
    THEN [role |-> "assistant", content |-> FallbackNoAnswer]
    ELSE IF Truthy(Field(outcome.data, "answer"))
    THEN [role |-> "assistant",
          content |-> outcome.data.answer,
          judgments |-> Field(outcome.data, "related_judgments"),
          arguments |-> Field(outcome.data, "arguments"),
          neutral_analysis |-> Field(outcome.data, "neutral_analysis"),
          citations |-> Field(outcome.data, "citations")]
    ELSE [role |-> "assistant", content |-> FallbackNoAnswer]

\* the assistant message handleSend builds for an outcome; whatever is thrown
\* inside the try block lands in the catch block
AssistantMessage(outcome) ==
    IF outcome.kind # "json"
    THEN [role |-> "assistant", content |-> FallbackError]
    ELSE IF Truthy(Field(outcome.data, "answer"))
    THEN [role |-> "assistant",
          content |-> outcome.data.answer,
          judgments |-> Field(outcome.data, "related_judgments"),
          arguments |-> Field(outcome.data, "arguments"),
          neutral_analysis |-> Field(outcome.data, "neutral_analysis"),
          citations |-> Field(outcome.data, "citations")]
    ELSE [role |-> "assistant", content |-> FallbackNoAnswer]

-----------------------------------------------------------------------------
(* Persistence *)

\* JSON.stringify of one message: keys whose value is undefined are omitted
StringifyMessage(m) == [k \in {q \in DOMAIN m : m[q] # Undefined} |-> m[k]]

\* JSON.stringify(conversations); the text is represented by the value it denotes
JSONStringify(convs) ==
    [i \in 1..Len(convs) |->
        [convs[i] EXCEPT !.messages =
            [j \in 1..Len(convs[i].messages) |-> StringifyMessage(convs[i].messages[j])]]]

NoItem == [kind |-> "absent"]
CorruptItem == [kind |-> "corrupt"]
JsonItem(convs) == [kind |-> "json", text |-> JSONStringify(convs)]

\* the load effect: conversations after mount for a stored item
LoadConversations(item) ==
    IF item.kind = "json" THEN item.text    \* JSON.parse succeeded
    ELSE <<>>                               \* no item, or parse threw and was caught

\* a load effect whose JSON.parse is not guarded
LoadEffectThrows_NoCatch(item) == item.kind = "corrupt"

\* does an exception leave the load effect?
LoadEffectThrows(item) ==
    IF item.kind = "absent" THEN FALSE          \* if (saved) is false: nothing parsed
    ELSE IF item.kind = "corrupt" THEN FALSE    \* JSON.parse threw inside try; caught and logged
    ELSE FALSE                                  \* parsed

\* a save effect that writes only while nothing valid is stored
SaveEffect_WriteOnce(convs, item) ==
    IF Len(convs) > 0 /\ item.kind # "json" THEN JsonItem(convs) ELSE item

\* the save effect, run after every render in which `conversations` changed
SaveEffect(convs, item) ==
    IF Len(convs) > 0 THEN JsonItem(convs) ELSE item

-----------------------------------------------------------------------------
(* Store operations as functions of the state they read *)

\* the ellipsis is added from TitleLimit characters on
TitleOf_EllipsisAtLimit(updatedMessages) ==
    Slice(updatedMessages[1].content, TitleLimit)
        \o (IF Len(updatedMessages[1].content) >= TitleLimit THEN "..." ELSE "")

\* title computed by saveCurrentConversation from the first message
TitleOf(updatedMessages) ==
    Slice(updatedMessages[1].content, TitleLimit)
        \o (IF Len(updatedMessages[1].content) > TitleLimit THEN "..." ELSE "")

NewId(timestamp) == "conv_" \o ToString(timestamp)

\* the updated record is put in front of the list, the old one left in place
UpdateExisting_Unshift(convs, id, updatedMessages, timestamp) ==
    << [id |-> id,
        title |-> updatedMessages[1].content,
        messages |-> updatedMessages,
        timestamp |-> timestamp] >> \o convs

\* prev.map(c => c.id === id ? {...c, messages, timestamp} : c)
UpdateExisting(convs, id, updatedMessages, timestamp) ==
    [i \in 1..Len(convs) |->
        IF convs[i].id = id
        THEN [convs[i] EXCEPT !.messages = updatedMessages, !.timestamp = timestamp]
        ELSE convs[i]]

\* the new record pushed at the end of the list
CreateNew_Push(convs, updatedMessages, timestamp) ==
    convs \o << [id |-> NewId(timestamp),
                 title |-> TitleOf(updatedMessages),
                 messages |-> updatedMessages,
                 timestamp |-> timestamp] >>

\* [{id: newId, title, messages, timestamp}, ...prev]
CreateNew(convs, updatedMessages, timestamp) ==
    << [id |-> NewId(timestamp),
        title |-> TitleOf(updatedMessages),
        messages |-> updatedMessages,
        timestamp |-> timestamp] >> \o convs

\* a filter with the comparison inverted
FilterOut_KeepMatching(convs, convId) == SelectSeq(convs, LAMBDA c : c.id = convId)

\* prev.filter(c => c.id !== convId)
FilterOut(convs, convId) == SelectSeq(convs, LAMBDA c : c.id # convId)

\* the save reads the id that is active when it runs, not the captured one
saveCurrentConversation_ReadsLatest(updatedMessages, captured, convs, active, timestamp) ==
    IF Len(updatedMessages) = 0
    THEN [conversations |-> convs, activeConversationId |-> active, written |-> FALSE]
    ELSE IF Truthy(active)
    THEN [conversations |-> UpdateExisting(convs, active, updatedMessages, timestamp),
          activeConversationId |-> active,
          written |-> TRUE]
    ELSE [conversations |-> CreateNew(convs, updatedMessages, timestamp),
          activeConversationId |-> NewId(timestamp),
          written |-> TRUE]

\* the empty-list guard sits in the new-conversation branch only
saveCurrentConversation_GuardInElse(updatedMessages, captured, convs, active, timestamp) ==
    IF Truthy(captured)
    THEN [conversations |-> UpdateExisting(convs, captured, updatedMessages, timestamp),
          activeConversationId |-> active,
          written |-> TRUE]
    ELSE IF Len(updatedMessages) = 0
    THEN [conversations |-> convs, activeConversationId |-> active, written |-> FALSE]
    ELSE [conversations |-> CreateNew(convs, updatedMessages, timestamp),
          activeConversationId |-> NewId(timestamp),
          written |-> TRUE]

\* saveCurrentConversation, called by a handler whose render had
\* activeConversationId = captured.  `written` tells whether setConversations
\* was called (the save effect then runs on the new array).
saveCurrentConversation(updatedMessages, captured, convs, active, timestamp) ==
    IF Len(updatedMessages) = 0
    THEN [conversations |-> convs, activeConversationId |-> active, written |-> FALSE]
    ELSE IF Truthy(captured)
    THEN [conversations |-> UpdateExisting(convs, captured, updatedMessages, timestamp),
          activeConversationId |-> active,
          written |-> TRUE]
    ELSE [conversations |-> CreateNew(convs, updatedMessages, timestamp),
          activeConversationId |-> NewId(timestamp),
          written |-> TRUE]

-----------------------------------------------------------------------------
(* History bookkeeping *)

\* every in-flight request now belongs to an earlier session
Staled(reqs) == [i \in 1..Len(reqs) |-> [reqs[i] EXCEPT !.fresh = FALSE]]

RemoveAt(s, i) == SubSeq(s, 1, i - 1) \o SubSeq(s, i + 1, Len(s))

HasFresh(reqs) == \E i \in 1..Len(reqs) : reqs[i].fresh

-----------------------------------------------------------------------------
(* Initial state: the page has just been mounted.  Spec starts on a profile *)
(* with no stored item or with an item that is not JSON; SpecReturning      *)
(* starts on a profile holding the snapshot an earlier visit left (one      *)
(* conversation that ended in a fallback reply).                            *)

StoredConversation ==
    [id |-> NewId(0),
     title |-> ShortText,
     messages |-> << UserMessage(ShortText),
                     [role |-> "assistant", content |-> FallbackNoAnswer] >>,
     timestamp |-> 0]

\* a second conversation of the earlier visit, saved after the first
StoredLater ==
    [id |-> NewId(1),
     title |-> "What is the punishment for murder under ...",
     messages |-> << UserMessage(LongText),
                     [role |-> "assistant", content |-> FallbackError] >>,
     timestamp |-> 1]

\* the state right after mounting, at time `clock`, on a profile whose stored
\* item is `item`
MountedAt(item, clock) ==
    /\ storage = SaveEffect(LoadConversations(item), item)
    /\ messages = <<>>
    /\ conversations = LoadConversations(item)
    /\ activeConversationId = Null
    /\ isLoading = FALSE
    /\ mounted = ~LoadEffectThrows(item)
    /\ pending = <<>>
    /\ now = clock
    /\ sends = 0
    /\ lastOp = [op |-> "mount"]
    /\ expected = <<>>
    /\ overlap = FALSE

Mounted(item) == MountedAt(item, 1)

Init == \E item \in {NoItem, CorruptItem} : Mounted(item)

InitReturning == Mounted(JsonItem(<<StoredConversation>>))

\* the first conversation of the earlier visit, had it been created at the
\* same Date.now() as the second: both records carry the id conv_1
StoredTwin == [StoredConversation EXCEPT !.id = NewId(1), !.timestamp = 1]

\* a profile holding two conversations that were created at the same time
InitCollided == MountedAt(JsonItem(<<StoredLater, StoredTwin>>), 2)

\* a profile holding two conversations, visited after both were saved
InitReturningTwo == MountedAt(JsonItem(<<StoredLater, StoredConversation>>), 2)

-----------------------------------------------------------------------------
(* Actions *)

\* a mount that resumes the most recent conversation of the loaded list
Mount_ResumeLatest ==
    LET loaded == LoadConversations(storage) IN
    /\ messages' = IF Len(loaded) > 0 THEN loaded[1].messages ELSE <<>>
    /\ activeConversationId' = IF Len(loaded) > 0 THEN loaded[1].id ELSE Null
    /\ isLoading' = FALSE
    /\ mounted' = ~LoadEffectThrows(storage)
    /\ conversations' = loaded
    /\ storage' = SaveEffect(conversations', storage)
    /\ pending' = <<>>
    /\ lastOp' = [op |-> "mount"]
    /\ expected' = messages'
    /\ overlap' = FALSE
    /\ UNCHANGED <<now, sends>>

\* a mount whose catch block removes the item that did not parse
Mount_ClearsCorrupt ==
    /\ messages' = <<>>
    /\ activeConversationId' = Null
    /\ isLoading' = FALSE
    /\ mounted' = ~LoadEffectThrows(storage)
    /\ conversations' = LoadConversations(storage)
    /\ storage' = IF storage.kind = "corrupt" THEN NoItem
                  ELSE SaveEffect(conversations', storage)
    /\ pending' = <<>>
    /\ lastOp' = [op |-> "mount"]
    /\ expected' = <<>>
    /\ overlap' = FALSE
    /\ UNCHANGED <<now, sends>>

\* The page is reloaded: state is re-created, the load effect reads the stored
\* item, and the save effect runs on the loaded list.  Requests of the old
\* page are dropped with it.
Mount ==
    /\ messages' = <<>>
    /\ activeConversationId' = Null
    /\ isLoading' = FALSE
    /\ mounted' = ~LoadEffectThrows(storage)
    /\ conversations' = LoadConversations(storage)
    /\ storage' = SaveEffect(conversations', storage)
    /\ pending' = <<>>
    /\ lastOp' = [op |-> "mount"]
    /\ expected' = <<>>
    /\ overlap' = FALSE
    /\ UNCHANGED <<now, sends>>

\* a new chat that keeps the conversation active
createNewChat_KeepsActive ==
    /\ mounted
    /\ messages' = <<>>
    /\ pending' = Staled(pending)
    /\ lastOp' = [op |-> "newChat"]
    /\ expected' = <<>>
    /\ overlap' = FALSE
    /\ UNCHANGED <<activeConversationId, conversations, isLoading, mounted,
                   storage, now, sends>>

createNewChat ==
    /\ mounted
    /\ messages' = <<>>
    /\ activeConversationId' = Null
    /\ pending' = Staled(pending)
    /\ lastOp' = [op |-> "newChat"]
    /\ expected' = <<>>
    /\ overlap' = FALSE
    /\ UNCHANGED <<conversations, isLoading, mounted, storage, now, sends>>

\* a switch that does not look the id up
switchConversation_Unchecked(convId) ==
    LET k == FindIndex(conversations, convId) IN
    /\ mounted
    /\ activeConversationId' = convId
    /\ messages' = IF k # 0 THEN conversations[k].messages ELSE <<>>
    /\ pending' = Staled(pending)
    /\ expected' = messages'
    /\ overlap' = FALSE
    /\ lastOp' = [op |-> "switch", convId |-> convId]
    /\ UNCHANGED <<conversations, isLoading, mounted, storage, now, sends>>

\* a switch that selects the conversation without showing its messages
switchConversation_IdOnly(convId) ==
    LET k == FindIndex(conversations, convId) IN
    /\ mounted
    /\ IF k # 0
       THEN /\ activeConversationId' = conversations[k].id
            /\ pending' = Staled(pending)
            /\ expected' = conversations[k].messages
            /\ overlap' = FALSE
            /\ UNCHANGED messages
       ELSE UNCHANGED <<activeConversationId, messages, pending, expected, overlap>>
    /\ lastOp' = [op |-> "switch", convId |-> convId]
    /\ UNCHANGED <<conversations, isLoading, mounted, storage, now, sends>>

switchConversation(convId) ==
    LET k == FindIndex(conversations, convId) IN
    /\ mounted
    /\ IF k # 0
       THEN /\ activeConversationId' = conversations[k].id
            /\ messages' = conversations[k].messages
            /\ pending' = Staled(pending)
            /\ expected' = conversations[k].messages
            /\ overlap' = FALSE
       ELSE UNCHANGED <<activeConversationId, messages, pending, expected, overlap>>
    /\ lastOp' = [op |-> "switch", convId |-> convId]
    /\ UNCHANGED <<conversations, isLoading, mounted, storage, now, sends>>

\* a delete that never resets the session
deleteConversation_KeepSession(convId) ==
    /\ mounted
    /\ conversations' = FilterOut(conversations, convId)
    /\ storage' = SaveEffect(conversations', storage)
    /\ lastOp' = [op |-> "delete", convId |-> convId,
                  wasActive |-> (activeConversationId = convId)]
    /\ UNCHANGED <<messages, activeConversationId, pending, expected, overlap,
                   isLoading, mounted, now, sends>>

\* a delete that resets the session whichever conversation is deleted
deleteConversation_AlwaysReset(convId) ==
    /\ mounted
    /\ conversations' = FilterOut(conversations, convId)
    /\ storage' = SaveEffect(conversations', storage)
    /\ messages' = <<>>
    /\ activeConversationId' = Null
    /\ pending' = Staled(pending)
    /\ expected' = <<>>
    /\ overlap' = FALSE
    /\ lastOp' = [op |-> "delete", convId |-> convId,
                  wasActive |-> (activeConversationId = convId)]
    /\ UNCHANGED <<isLoading, mounted, now, sends>>

deleteConversation(convId) ==
    /\ mounted
    /\ conversations' = FilterOut(conversations, convId)
    /\ storage' = SaveEffect(conversations', storage)
    /\ IF activeConversationId = convId
       THEN /\ messages' = <<>>
            /\ activeConversationId' = Null
            /\ pending' = Staled(pending)
            /\ expected' = <<>>
            /\ overlap' = FALSE
       ELSE UNCHANGED <<messages, activeConversationId, pending, expected, overlap>>
    /\ lastOp' = [op |-> "delete", convId |-> convId,
                  wasActive |-> (activeConversationId = convId)]
    /\ UNCHANGED <<isLoading, mounted, now, sends>>

\* handleSend up to its await; for blank input it returns at once
handleSend(text) ==
    /\ mounted
    /\ sends < MaxSends
    /\ IF Trim(text) = ""
       THEN UNCHANGED vars
       ELSE /\ messages' = Append(messages, UserMessage(text))
            /\ isLoading' = TRUE
            /\ pending' = Append(pending,
                            [messages |-> messages,
                             activeConversationId |-> activeConversationId,
                             userMsg |-> UserMessage(text),
                             fresh |-> TRUE])
            /\ sends' = sends + 1
            /\ expected' = Append(expected, UserMessage(text))
            /\ overlap' = (overlap \/ HasFresh(pending))
            /\ lastOp' = [op |-> "send"]
            /\ UNCHANGED <<conversations, activeConversationId, mounted, storage, now>>

\* handleSend from its await to its end, for the i-th in-flight request;
\* timestamp is what Date.now() returns in saveCurrentConversation
handleResponse(i, outcome, timestamp) ==
    LET req == pending[i]
        reply == AssistantMessage(outcome)
        newMessages == req.messages \o <<req.userMsg, reply>>
        saved == saveCurrentConversation(newMessages, req.activeConversationId,
                                         conversations, activeConversationId, timestamp)
    IN
    /\ mounted
    /\ messages' = newMessages
    /\ conversations' = saved.conversations
    /\ activeConversationId' = saved.activeConversationId
    /\ storage' = IF saved.written THEN SaveEffect(saved.conversations, storage)
                  ELSE storage
    /\ isLoading' = FALSE
    /\ pending' = IF req.fresh THEN RemoveAt(pending, i)
                  ELSE Staled(RemoveAt(pending, i))
    /\ expected' = IF req.fresh THEN Append(expected, reply) ELSE newMessages
    /\ overlap' = (req.fresh /\ overlap)
    /\ lastOp' = [op |-> "response", req |-> req, outcome |-> outcome,
                  savedId |-> IF Truthy(req.activeConversationId)
                              THEN req.activeConversationId ELSE NewId(timestamp)]
    /\ now' = timestamp
    /\ UNCHANGED <<mounted, sends>>

\* the clock does not run backwards
Clock == now..MaxTime

Next ==
    \/ Mount
    \/ createNewChat
    \/ \E convId \in Ids(conversations) : switchConversation(convId)
    \/ \E convId \in Ids(conversations) : deleteConversation(convId)
    \/ \E text \in Texts : handleSend(text)
    \/ \E i \in 1..Len(pending) : \E outcome \in CoreOutcomes :
            \E timestamp \in Clock : handleResponse(i, outcome, timestamp)

Spec == Init /\ [][Next]_vars

\* The same page with every outcome of the request and one prompt.
QueryTexts == {ShortText, BlankText}

NextQuery ==
    \/ Mount
    \/ createNewChat
    \/ \E convId \in Ids(conversations) : switchConversation(convId)
    \/ \E convId \in Ids(conversations) : deleteConversation(convId)
    \/ \E text \in QueryTexts : handleSend(text)
    \/ \E i \in 1..Len(pending) : \E outcome \in Outcomes :
            \E timestamp \in Clock : handleResponse(i, outcome, timestamp)

SpecQuery == Init /\ [][NextQuery]_vars

SpecReturning == InitReturning /\ [][Next]_vars

------------------------------------------------------------------------------
(* The page on a storage area that can run out of room: localStorage.setItem *)
(* may throw (quota exceeded).  The save effect calls it outside any try     *)
(* block and no error boundary is rendered above the page, so the error of   *)
(* the effect unmounts the component tree; only a reload brings it back.     *)

\* the response step whose save effect throws in setItem
handleResponseWriteThrows(i, outcome, timestamp) ==
    LET req == pending[i]
        reply == AssistantMessage(outcome)
        newMessages == req.messages \o <<req.userMsg, reply>>
        saved == saveCurrentConversation(newMessages, req.activeConversationId,
                                         conversations, activeConversationId, timestamp)
    IN
    /\ mounted
    /\ saved.written
    /\ Len(saved.conversations) > 0
    /\ messages' = newMessages
    /\ conversations' = saved.conversations
    /\ activeConversationId' = saved.activeConversationId
    /\ storage' = storage
    /\ mounted' = FALSE
    /\ isLoading' = FALSE
    /\ pending' = <<>>
    /\ expected' = IF req.fresh THEN Append(expected, reply) ELSE newMessages
    /\ overlap' = (req.fresh /\ overlap)
    /\ lastOp' = [op |-> "response", req |-> req, outcome |-> outcome,
                  savedId |-> IF Truthy(req.activeConversationId)
                              THEN req.activeConversationId ELSE NewId(timestamp),
                  writeThrew |-> TRUE]
    /\ now' = timestamp
    /\ UNCHANGED sends

\* the delete whose save effect throws in setItem
deleteConversationWriteThrows(convId) ==
    /\ mounted
    /\ Len(FilterOut(conversations, convId)) > 0
    /\ conversations' = FilterOut(conversations, convId)
    /\ storage' = storage
    /\ mounted' = FALSE
    /\ pending' = <<>>
    /\ IF activeConversationId = convId
       THEN /\ messages' = <<>>
            /\ activeConversationId' = Null
            /\ expected' = <<>>
            /\ overlap' = FALSE
       ELSE UNCHANGED <<messages, activeConversationId, expected, overlap>>
    /\ lastOp' = [op |-> "delete", convId |-> convId,
                  wasActive |-> (activeConversationId = convId),
                  writeThrew |-> TRUE]
    /\ UNCHANGED <<isLoading, now, sends>>

NextQuota ==
    \/ Next
    \/ \E convId \in Ids(conversations) : deleteConversationWriteThrows(convId)
    \/ \E i \in 1..Len(pending) : \E outcome \in CoreOutcomes :
            \E timestamp \in Clock : handleResponseWriteThrows(i, outcome, timestamp)

SpecQuota == Init /\ [][NextQuota]_vars

\* The returning visitor's page with callers that also pass an id no record
\* of the list has (the list items of the sidebar never do), and one prompt.
UnknownId == "conv_unknown"

NextUnknown ==
    \/ createNewChat
    \/ \E convId \in Ids(conversations) \cup {UnknownId} : switchConversation(convId)
    \/ \E convId \in Ids(conversations) \cup {UnknownId} : deleteConversation(convId)
    \/ \E text \in QueryTexts : handleSend(text)
    \/ \E i \in 1..Len(pending) : \E outcome \in CoreOutcomes :
            \E timestamp \in Clock : handleResponse(i, outcome, timestamp)

SpecUnknown == InitReturning /\ [][NextUnknown]_vars

SpecReturningTwo == InitReturningTwo /\ [][Next]_vars

SpecCollided == InitCollided /\ [][Next]_vars

\* The page of a visitor with two stored conversations, within one page
\* load and with one prompt.
NextSwitching ==
    \/ createNewChat
    \/ \E convId \in Ids(conversations) : switchConversation(convId)
    \/ \E convId \in Ids(conversations) : deleteConversation(convId)
    \/ \E text \in QueryTexts : handleSend(text)
    \/ \E i \in 1..Len(pending) : \E outcome \in CoreOutcomes :
            \E timestamp \in Clock : handleResponse(i, outcome, timestamp)

SpecSwitching == InitReturningTwo /\ [][NextSwitching]_vars

------------------------------------------------------------------------------
(* The conversation store on its own: saveCurrentConversation called        *)
(* directly from the current render, with the message lists a session can   *)
(* hold, between new chats and switches.                                    *)

SessionLists ==
    { <<>>,
      << UserMessage(ShortText), [role |-> "assistant", content |-> FallbackNoAnswer] >>,
      << UserMessage(ExactText), [role |-> "assistant", content |-> FallbackNoAnswer] >>,
      << UserMessage(LongText), [role |-> "assistant", content |-> FallbackError] >>,
      << UserMessage(LongText), [role |-> "assistant", content |-> FallbackError],
         UserMessage(ShortText), [role |-> "assistant", content |-> FallbackNoAnswer] >> }

\* saveCurrentConversation(updatedMessages) followed by the save effect
saveSession(updatedMessages, timestamp) ==
    LET saved == saveCurrentConversation(updatedMessages, activeConversationId,
                                         conversations, activeConversationId, timestamp)
    IN
    /\ mounted
    /\ sends < MaxSends
    /\ conversations' = saved.conversations
    /\ activeConversationId' = saved.activeConversationId
    /\ storage' = IF saved.written THEN SaveEffect(saved.conversations, storage)
                  ELSE storage
    /\ sends' = sends + 1
    /\ now' = timestamp
    /\ lastOp' = [op |-> "save",
                  updatedMessages |-> updatedMessages,
                  active |-> activeConversationId,
                  written |-> saved.written,
                  again |-> /\ lastOp.op = "save"
                            /\ lastOp.updatedMessages = updatedMessages
                            /\ lastOp.active = activeConversationId]
    /\ UNCHANGED <<messages, isLoading, mounted, pending, expected, overlap>>

InitStore == \E item \in {NoItem, JsonItem(<<StoredConversation>>)} : Mounted(item)

NextStore ==
    \/ createNewChat
    \/ \E convId \in Ids(conversations) : switchConversation(convId)
    \/ \E updatedMessages \in SessionLists :
            \E timestamp \in Clock : saveSession(updatedMessages, timestamp)

SpecStore == InitStore /\ [][NextStore]_vars

-----------------------------------------------------------------------------
TypeOK ==
    /\ isLoading \in BOOLEAN
    /\ mounted \in BOOLEAN
    /\ now \in 1..MaxTime
    /\ sends \in 0..MaxSends
    /\ storage.kind \in {"absent", "corrupt", "json"}
    /\ activeConversationId = Null \/ SubSeq(activeConversationId, 1, 5) = "conv_"

-----------------------------------------------------------------------------
(* Properties *)

MessageKeys == {"role", "content", "judgments", "arguments", "neutral_analysis", "citations"}

\* a and b read the same: same length, and every property of every message
\* reads the same value (a missing key reads as undefined)
SameMessages(a, b) ==
    /\ Len(a) = Len(b)
    /\ \A i \in 1..Len(a) : \A k \in MessageKeys : Field(a[i], k) = Field(b[i], k)

IsPrefix(a, b) == Len(a) <= Len(b) /\ SubSeq(b, 1, Len(a)) = a

Replies(s) == SelectSeq(s, LAMBDA m : m.role = "assistant")

\* messages of the first conversation with the given id
MessagesOf(convs, id) == convs[FindIndex(convs, id)].messages

RECURSIVE Without(_, _)
\* convs with every record of the given id left out, order kept
Without(convs, id) ==
    IF Len(convs) = 0 THEN <<>>
    ELSE IF Head(convs).id = id THEN Without(Tail(convs), id)
    ELSE <<Head(convs)>> \o Without(Tail(convs), id)

\* C1: after a response save or a delete that changed `conversations`, the
\* stored item is the serialization of the in-memory list, also when that
\* list has become empty.
C1_SnapshotEqualsMemory ==
    [][ (lastOp'.op \in {"response", "delete"} /\ conversations' # conversations)
          => (storage'.kind = "json" /\ storage'.text = JSONStringify(conversations')) ]_vars

\* C2: after deleteConversation(X), loading the store from the stored item
\* gives a list without X.
C2_DeletePersists ==
    lastOp.op = "delete" => lastOp.convId \notin Ids(LoadConversations(storage))

\* C3: after a response saved the session's messages into a conversation,
\* loading the store from the stored item gives a conversation with that id
\* whose messages read the same, in the same order.
C3_RoundTrip ==
    (lastOp.op = "response" /\ lastOp.savedId \in Ids(conversations))
        => LET loaded == LoadConversations(storage) IN
           \E k \in 1..Len(loaded) :
              /\ loaded[k].id = lastOp.savedId
              /\ SameMessages(loaded[k].messages, messages)

\* a session [U1, A1] with a successful answer has been saved; the stored
\* messages differ from the in-memory ones in the keys that were undefined
C3_Witness ==
    /\ lastOp.op = "response"
    /\ lastOp.savedId \in Ids(conversations)
    /\ Len(messages) = 2
    /\ "citations" \in DOMAIN messages[2]
    /\ storage.kind = "json"
    /\ MessagesOf(LoadConversations(storage), lastOp.savedId) # messages

\* C4: no two conversations have the same id.
C4_UniqueIds ==
    \A i, j \in 1..Len(conversations) :
        conversations[i].id = conversations[j].id => i = j

\* C5: activeConversationId is null or the id of a conversation in the list.
C5_ActiveIsKnown ==
    activeConversationId = Null \/ activeConversationId \in Ids(conversations)

\* the active conversation was deleted while requests were in flight, and a
\* conversation is active again after a late response
C5_Witness ==
    /\ lastOp.op = "response"
    /\ ~lastOp.req.fresh
    /\ activeConversationId # Null
    /\ Len(conversations) >= 2

\* C6: a response that saves into an existing conversation only appends: every
\* conversation keeps its place and its earlier messages as a prefix.
C6_AppendOnly ==
    [][ (lastOp'.op = "response" /\ Truthy(lastOp'.req.activeConversationId))
          => \A i \in 1..Len(conversations) :
                /\ conversations'[i].id = conversations[i].id
                /\ IsPrefix(conversations[i].messages, conversations'[i].messages) ]_vars

\* C7: when a message was sent while another request of the same session was
\* pending and all responses of the session have arrived, the working list and
\* the active conversation hold every user message and every reply of the
\* session, the replies in arrival order.
C7_ConcurrentSendsKeepAll ==
    (lastOp.op = "response" /\ overlap /\ ~HasFresh(pending))
        => /\ Range(expected) \subseteq Range(messages)
           /\ Replies(messages) = Replies(expected)
           /\ activeConversationId \in Ids(conversations)
           /\ Range(expected) \subseteq Range(MessagesOf(conversations, activeConversationId))

\* C8: after a send in conversation X and a switch to another conversation Y,
\* the arrival of X's response leaves Y active and the working list equal to
\* Y's stored messages.
C8_LateResponseNotAppended ==
    [][ ( /\ lastOp.op = "switch"
          /\ lastOp.convId = activeConversationId
          /\ lastOp'.op = "response"
          /\ Truthy(lastOp'.req.activeConversationId)
          /\ activeConversationId # lastOp'.req.activeConversationId
          /\ messages = MessagesOf(conversations, activeConversationId) )
          => /\ activeConversationId' = activeConversationId
             /\ messages' = MessagesOf(conversations', activeConversationId') ]_vars

\* C9: deleting the active conversation X leaves no conversation active, an
\* empty working list, and no X in the list.
C9_DeleteActiveResets ==
    (lastOp.op = "delete" /\ lastOp.wasActive)
        => /\ activeConversationId = Null
           /\ messages = <<>>
           /\ lastOp.convId \notin Ids(conversations)

\* the active conversation was deleted while other conversations remain
C9_Witness ==
    /\ lastOp.op = "delete"
    /\ lastOp.wasActive
    /\ Len(conversations) > 0

\* C10: deleting a conversation Y other than the active one X leaves X active,
\* the working list as it was, and every other record, X's included, as it
\* was and in the same order.
C10_DeleteInactivePreserves ==
    [][ ( /\ lastOp'.op = "delete"
          /\ activeConversationId # Null
          /\ activeConversationId # lastOp'.convId )
          => /\ activeConversationId' = activeConversationId
             /\ messages' = messages
             /\ conversations' = Without(conversations, lastOp'.convId) ]_vars

\* a conversation other than the active one was deleted; the active one is
\* still in the list and its messages are shown
C10_Witness ==
    /\ lastOp.op = "delete"
    /\ ~lastOp.wasActive
    /\ activeConversationId \in Ids(conversations)
    /\ Len(messages) > 0
    /\ messages = MessagesOf(conversations, activeConversationId)

C20_CorruptSnapshotNonFatal ==
    /\ (lastOp.op = "mount" /\ storage.kind = "corrupt")
          => /\ conversations = <<>>
             /\ activeConversationId = Null
             /\ messages = <<>>
    /\ storage.kind = "corrupt" => (mounted /\ ENABLED createNewChat)

\* a message was sent on a page mounted on an unparseable item
C20_Witness ==
    /\ storage.kind = "corrupt"
    /\ mounted
    /\ lastOp.op = "send"
    /\ conversations = <<>>

\* the response step that just happened handled this kind of outcome
Handled(op, kinds) == op.op = "response" /\ op.outcome.kind \in kinds

\* the request's captured list, its user message and the given reply
Answered(req, content) ==
    req.messages \o <<req.userMsg, [role |-> "assistant", content |-> content]>>

\* the list was handed to the store: it is the new head when the request
\* captured no conversation, and the record of the captured conversation
\* when that one is still in the list
SavedWithSession(req, convs, convs2, list) ==
    IF ~Truthy(req.activeConversationId)
    THEN Len(convs2) = Len(convs) + 1 /\ convs2[1].messages = list
    ELSE \A k \in 1..Len(convs) :
            convs[k].id = req.activeConversationId
               => convs2[k].messages = list

\* the body parsed as JSON and carries no answer
LacksAnswer(outcome) ==
    \/ outcome.kind = "nulljson"
    \/ outcome.kind = "json" /\ ~Truthy(Field(outcome.data, "answer"))

\* C16: a response whose body parses as JSON and has no answer makes the
\* working list the captured list, the user message and one fixed fallback
\* message (the soft-failure text for an object, the connection-error text
\* for null); the list is saved and the handler runs to its end.
C16_NoAnswerSoftFailure ==
    [][ (lastOp'.op = "response" /\ LacksAnswer(lastOp'.outcome))
          => /\ messages' = Answered(lastOp'.req,
                                IF lastOp'.outcome.kind = "json"
                                THEN FallbackNoAnswer ELSE FallbackError)
             /\ SavedWithSession(lastOp'.req, conversations, conversations', messages')
             /\ ~isLoading' ]_vars

\* a body without an answer was received and its fallback is stored in a
\* conversation
C16_Witness ==
    /\ Handled(lastOp, {"json"})
    /\ ~Truthy(Field(lastOp.outcome.data, "answer"))
    /\ messages[Len(messages)].content = FallbackNoAnswer
    /\ \E k \in 1..Len(conversations) : conversations[k].messages = messages

\* C17: when fetch rejects or the body is not JSON the catch block makes the
\* working list the captured list, the user message and the one fixed
\* connection-error message, and the handler runs to its end.
C17_TransportErrorCaught ==
    [][ Handled(lastOp', {"reject", "badjson"})
          => /\ messages' = Answered(lastOp'.req, FallbackError)
             /\ Len(messages') = Len(lastOp'.req.messages) + 2
             /\ ~isLoading'
             /\ mounted' ]_vars

\* an unparseable body was handled after an earlier failure of the request
C17_Witness ==
    /\ Handled(lastOp, {"badjson"})
    /\ Len(messages) = 4
    /\ messages[2].content = FallbackError
    /\ messages[4].content = FallbackError
    /\ ~isLoading

\* C18: the message appended for a response that is not 2xx is one of the
\* fixed fallback messages.
C18_NonOkIsFailure ==
    ( /\ Handled(lastOp, {"json"})
      /\ ~lastOp.outcome.ok )
       => messages[Len(messages)].content \in {FallbackNoAnswer, FallbackError}

\* C13: a response whose request captured no conversation puts the new
\* record at index 1 of the list and leaves the records that were there
\* behind it, in the order they had.
C13_NewestFirst ==
    [][ ( /\ lastOp'.op = "response"
          /\ ~Truthy(lastOp'.req.activeConversationId) )
          => /\ Len(conversations') = Len(conversations) + 1
             /\ conversations'[1].id = lastOp'.savedId
             /\ conversations'[1].messages = messages'
             /\ SubSeq(conversations', 2, Len(conversations')) = conversations ]_vars

\* conversation A was saved, a new chat was started and its first exchange
\* was saved as B: the list is <<B, A>>
C13_Witness ==
    /\ lastOp.op = "response"
    /\ ~Truthy(lastOp.req.activeConversationId)
    /\ lastOp.req.messages = <<>>
    /\ lastOp.req.fresh
    /\ Len(conversations) = 2
    /\ conversations[1].id = activeConversationId
    /\ conversations[1].messages = messages
    /\ conversations[2].id # conversations[1].id
    /\ conversations[2].messages # messages

\* the two records differ at most in their timestamp
SameButTimestamp(c, d) == [c EXCEPT !.timestamp = d.timestamp] = d

\* C11: a second save, right after a save with the same active conversation
\* (one that is in the list) and the same message list, keeps the length of
\* the list and the active id, and changes nothing but the timestamp of the
\* records with that id.
C11_ResaveIdempotent ==
    [][ ( /\ lastOp'.op = "save"
          /\ lastOp'.again
          /\ Truthy(activeConversationId)
          /\ activeConversationId \in Ids(conversations) )
          => /\ Len(conversations') = Len(conversations)
             /\ activeConversationId' = activeConversationId
             /\ messages' = messages
             /\ \A k \in 1..Len(conversations) :
                    IF conversations[k].id = activeConversationId
                    THEN SameButTimestamp(conversations[k], conversations'[k])
                    ELSE conversations'[k] = conversations[k] ]_vars

\* the same non-empty list was saved twice in a row into a conversation of
\* the list, the second time at the latest clock value
C11_Witness ==
    /\ lastOp.op = "save"
    /\ lastOp.again
    /\ lastOp.updatedMessages # <<>>
    /\ lastOp.active = activeConversationId
    /\ activeConversationId \in Ids(conversations)
    /\ MessagesOf(conversations, activeConversationId) = lastOp.updatedMessages
    /\ \E k \in 1..Len(conversations) :
          conversations[k].id = activeConversationId /\ conversations[k].timestamp = MaxTime

\* C12: a save of the empty list changes neither the list, nor the active
\* id, nor the stored item, and calls no setter.
C12_EmptySaveNoOp ==
    [][ (lastOp'.op = "save" /\ lastOp'.updatedMessages = <<>>)
          => /\ conversations' = conversations
             /\ activeConversationId' = activeConversationId
             /\ storage' = storage
             /\ ~lastOp'.written ]_vars

\* the empty list was saved while a conversation of the list was active
C12_Witness ==
    /\ lastOp.op = "save"
    /\ lastOp.updatedMessages = <<>>
    /\ Truthy(lastOp.active)
    /\ lastOp.active \in Ids(conversations)
    /\ MessagesOf(conversations, lastOp.active) # <<>>

\* C14: the record a save creates carries as title the first message's
\* content when that has at most 40 characters, and its first 40 characters
\* followed by "..." when it has more.
C14_TitleDerivation ==
    [][ ( /\ lastOp'.op = "save"
          /\ ~Truthy(lastOp'.active)
          /\ lastOp'.updatedMessages # <<>> )
          => LET content == lastOp'.updatedMessages[1].content
                 title == conversations'[1].title
             IN IF Len(content) <= 40
                THEN title = content
                ELSE /\ Len(title) = 43
                     /\ SubSeq(title, 1, 40) = SubSeq(content, 1, 40)
                     /\ SubSeq(title, 41, 43) = "..." ]_vars

\* a conversation was created from a first message of exactly 40 characters
\* and another from a longer one
C14_Witness ==
    /\ lastOp.op = "save"
    /\ ~Truthy(lastOp.active)
    /\ Len(conversations) >= 2
    /\ conversations[1].title = ExactText
    /\ \E k \in 2..Len(conversations) :
          conversations[k].title = "What is the punishment for murder under ..."

\* C15: the title of every record is the title saveCurrentConversation
\* derives from the first message of the record's current messages.
C15_TitleFollowsFirstMessage ==
    \A k \in 1..Len(conversations) :
        conversations[k].title = TitleOf(conversations[k].messages)

\* the conversations the stored item holds (none when it is absent or not JSON)
StoredList(item) == IF item.kind = "json" THEN item.text ELSE <<>>

\* C21: a switch to an id of the list makes that id active and the working
\* list the stored messages of a record with that id; the list and the
\* stored item stay as they were.
C21_SwitchLoadsStored ==
    [][ ( /\ lastOp'.op = "switch"
          /\ lastOp'.convId \in Ids(conversations) )
          => /\ activeConversationId' = lastOp'.convId
             /\ \E k \in 1..Len(conversations) :
                    /\ conversations[k].id = lastOp'.convId
                    /\ messages' = conversations[k].messages
             /\ conversations' = conversations
             /\ storage' = storage ]_vars

\* the older of two conversations was switched to: its id is active and its
\* two messages are shown
C21_Witness ==
    /\ lastOp.op = "switch"
    /\ Len(conversations) = 2
    /\ conversations[2].id = lastOp.convId
    /\ conversations[1].id # lastOp.convId
    /\ activeConversationId = lastOp.convId
    /\ messages = conversations[2].messages
    /\ messages # conversations[1].messages

\* C23: a new chat empties the working list and leaves no conversation
\* active, with the list and the stored item as they were; the stored item
\* gains a record only in a response step, which saves a non-empty list.
C23_NewChatIsProvisional ==
    [][ /\ lastOp'.op = "newChat"
            => /\ messages' = <<>>
               /\ activeConversationId' = Null
               /\ conversations' = conversations
               /\ storage' = storage
        /\ Len(StoredList(storage')) > Len(StoredList(storage))
            => /\ lastOp'.op = "response"
               /\ StoredList(storage')[1].messages # <<>> ]_vars

\* a new chat was started from a saved, active conversation, which is still
\* in the list and in the stored item
C23_Witness ==
    /\ lastOp.op = "newChat"
    /\ messages = <<>>
    /\ activeConversationId = Null
    /\ Len(conversations) > 0
    /\ Len(StoredList(storage)) = Len(conversations)

\* C22: with an id that no record of the list has, a switch leaves the
\* active id and the working list, a delete leaves the list, and the save
\* of a response whose conversation was deleted while the request was in
\* flight leaves the list and the active id as they were; the component
\* stays mounted in all three.
C22_UnknownIdIsNoOp ==
    [][ /\ ( /\ lastOp'.op = "switch"
              /\ lastOp'.convId \notin Ids(conversations) )
              => /\ activeConversationId' = activeConversationId
                 /\ messages' = messages
                 /\ conversations' = conversations
                 /\ mounted'
        /\ ( /\ lastOp'.op = "delete"
              /\ lastOp'.convId \notin Ids(conversations) )
              => /\ conversations' = conversations
                 /\ mounted'
        /\ ( /\ lastOp'.op = "response"
              /\ Truthy(lastOp'.req.activeConversationId)
              /\ lastOp'.req.activeConversationId \notin Ids(conversations) )
              => /\ conversations' = conversations
                 /\ activeConversationId' = activeConversationId
                 /\ mounted' ]_vars

\* a request was sent in a conversation, the conversation was deleted and
\* the response has arrived; another conversation is in the list
C22_Witness ==
    /\ lastOp.op = "response"
    /\ Truthy(lastOp.req.activeConversationId)
    /\ lastOp.req.activeConversationId \notin Ids(conversations)
    /\ Len(conversations) > 0
    /\ mounted

\* C24: after a step whose storage write threw, the component is still
\* mounted with its handlers usable.
C24_WriteFailureNonFatal ==
    "writeThrew" \in DOMAIN lastOp
        => /\ mounted
           /\ ENABLED createNewChat

\* C25: the timestamps of the list do not increase from one record to the
\* next.
C25_MostRecentFirst ==
    \A k \in 1..(Len(conversations) - 1) :
        conversations[k].timestamp >= conversations[k + 1].timestamp

\* C26: a response saved into a conversation of the list leaves the sequence
\* of ids as it was, replaces the messages and the timestamp of one record
\* with that id, whose id and title stay, and leaves every other record as
\* it was.
C26_UpdateInPlace ==
    [][ ( /\ lastOp'.op = "response"
          /\ Truthy(lastOp'.req.activeConversationId)
          /\ lastOp'.req.activeConversationId \in Ids(conversations) )
          => /\ Len(conversations') = Len(conversations)
             /\ \A k \in 1..Len(conversations) :
                    conversations'[k].id = conversations[k].id
             /\ \E k \in 1..Len(conversations) :
                    /\ conversations[k].id = lastOp'.req.activeConversationId
                    /\ conversations'[k] =
                          [conversations[k] EXCEPT !.messages = messages',
                                                   !.timestamp = now']
                    /\ \A j \in 1..Len(conversations) :
                          j # k => conversations'[j] = conversations[j] ]_vars

\* C27: when the response of a request sent in conversation X arrives while
\* another conversation Y of the list is active, X's record takes the
\* response's list and every record with another id, Y's included, stays as
\* it was; Y stays active.
C27_SaveTargetsSendTimeConversation ==
    [][ ( /\ lastOp'.op = "response"
          /\ Truthy(lastOp'.req.activeConversationId)
          /\ lastOp'.req.activeConversationId \in Ids(conversations)
          /\ activeConversationId \in Ids(conversations)
          /\ activeConversationId # lastOp'.req.activeConversationId )
          => /\ Len(conversations') = Len(conversations)
             /\ \A k \in 1..Len(conversations) :
                    IF conversations[k].id = lastOp'.req.activeConversationId
                    THEN conversations'[k].messages =
                            lastOp'.req.messages \o
                               <<lastOp'.req.userMsg, AssistantMessage(lastOp'.outcome)>>
                    ELSE conversations'[k] = conversations[k]
             /\ activeConversationId' = activeConversationId ]_vars

\* a prompt was sent in the older conversation, the newer one was switched
\* to, and the reply has arrived: the older record has four messages, the
\* newer one is active with its stored two
C27_Witness ==
    /\ lastOp.op = "response"
    /\ lastOp.req.activeConversationId = StoredConversation.id
    /\ activeConversationId = StoredLater.id
    /\ Len(conversations) = 2
    /\ conversations[1] = StoredLater
    /\ conversations[2].id = StoredConversation.id
    /\ Len(conversations[2].messages) = 4

\* C28: a response to a request of the current session (no new chat, switch
\* or delete of the active conversation since it was sent) that arrives when
\* the session already has its conversation adds no record to the list.
C28_OneRecordPerSession ==
    [][ ( /\ lastOp'.op = "response"
          /\ lastOp'.req.fresh
          /\ Truthy(activeConversationId) )
          => Len(conversations') = Len(conversations) ]_vars

\* C29: isLoading is true exactly when a request is in flight.
C29_LoadingWhilePending ==
    mounted => (isLoading <=> Len(pending) > 0)

\* C30: a mount leaves the stored item as it was, whether it is absent, not
\* JSON or a list, and the stored item changes only in steps that change
\* the list in memory.
C30_MountKeepsSnapshot ==
    [][ /\ lastOp'.op = "mount" => storage' = storage
        /\ storage' # storage => conversations' # conversations ]_vars

\* the page was reloaded, after a prompt had been sent, on an item that is
\* not JSON, and the item is still the one that was there
C30_Witness ==
    /\ lastOp.op = "mount"
    /\ storage = CorruptItem
    /\ conversations = <<>>
    /\ sends > 0

====
